---- MODULE Spec2Model ----
(***************************************************************************)
(* A model of meme_maker's main.py: the asset resolver                     *)
(* (get_required_assets), the compositor (process_image), the final        *)
(* rescale to 512 px and the command line pipeline around them.            *)
(*                                                                         *)
(* Python's None is the empty sequence <<>>; an optional value v is <<v>>. *)
(* Python lists are sequences; list index i is sequence index i + 1.       *)
(***************************************************************************)
EXTENDS Integers, Sequences, FiniteSets, TLC

VARIABLES
    positions_data,   \* get_required_assets: the config's "positions" table
    photo_paths,      \* get_required_assets: the --profilephoto list
    template_id,      \* get_required_assets: the root slot id
    template_dir,     \* get_required_assets: directory of the template
    files,            \* the mask files that exist on disk (os.path.exists)
    walk,             \* get_required_assets: its locals and its return value
    iters,            \* number of loop iterations the walk has performed
    mask_size,        \* process_image: mask_img.size
    photo_size,       \* process_image: photo_img.size
    plan,             \* process_image: how the photo is scaled and cropped
    canvas_size,      \* __main__: current_base.size after the compositing loop
    final_size,       \* __main__: final_image.size handed to the save step
    is_swap,          \* __main__: args.swap
    current_base,     \* __main__: the running canvas of the compositing loop
    layer,            \* __main__: the loop index i
    last_call,        \* process_image: the arguments of the latest call
    processed_base,   \* process_image: what the latest call returned
    aborted,          \* __main__: sys.exit(1) was called in the loop
    pc,               \* __main__: the stage the run is at
    cfg_file,         \* what the --config path holds
    template_file,    \* the file name of --template
    out_dir_missing,  \* output_dir is named and does not exist
    req,              \* __main__: what get_required_assets returned
    done,             \* the stages that have succeeded
    failed,           \* the stages that have failed
    dir_created,      \* os.makedirs(output_dir) has run
    out_file,         \* the output file: "none", "partial" or "written"
    exit_code         \* the exit code of the process

resolveVars == <<positions_data, photo_paths, template_id, template_dir, files, walk, iters>>
scaleVars == <<mask_size, photo_size, plan>>
rescaleVars == <<canvas_size, final_size>>

composeVars == <<is_swap, current_base, layer, last_call, processed_base, aborted>>

pipeVars == <<pc, cfg_file, template_file, out_dir_missing, req, done, failed, dir_created, out_file, exit_code>>

vars == <<resolveVars, scaleVars, rescaleVars, composeVars, pipeVars>>

None == <<>>

\* the variables of the resolver while another part of the program runs
ResolveIdle ==
    /\ positions_data = <<>>
    /\ photo_paths = <<>>
    /\ template_id = ""
    /\ template_dir = ""
    /\ files = {}
    /\ walk = None
    /\ iters = 0

ScaleIdle ==
    /\ mask_size = <<0, 0>>
    /\ photo_size = <<0, 0>>
    /\ plan = None

RescaleIdle ==
    /\ canvas_size = <<0, 0>>
    /\ final_size = None


-----------------------------------------------------------------------------
(* Bounds of the model and the input alphabets.                            *)

\* at most this many --profilephoto sources are supplied
MaxPhotos == 3

\* slot identifiers that may be keys of the position table; "" is a legal
\* JSON key and a legal next_id
SlotIds == {"", "a", "b", "c"}

\* identifiers a third element may name; "zz" is never a key of the table
NextIds == SlotIds \cup {"zz"}

\* identifiers the template file name can yield: the regular expression
\* eat([a-zA-Z0-9_]+)\.png needs at least one character
RootIds == {"a", "b"}

TemplateDirs == {"tpl"}

PhotoName(i) == <<"photo", i>>

-----------------------------------------------------------------------------
(* get_required_assets                                                     *)

\* the x, y of a slot's entry: distinct per slot, so entries can be told apart
SlotXY(id) ==
    CASE id = ""  -> <<0, 0>>
      [] id = "a" -> <<10, 11>>
      [] id = "b" -> <<20, 21>>
      [] OTHER    -> <<30, 31>>

\* a position entry: [x, y] or [x, y, next_id]
Entries(id) ==
    {SlotXY(id)} \cup {SlotXY(id) \o <<n>> : n \in NextIds}

PositionTables ==
    UNION {
        {t \in [D -> UNION {Entries(id) : id \in D}] :
            \A id \in D : t[id] \in Entries(id)} : D \in SUBSET SlotIds}

\* os.path.join(template_dir, f"mask{id}.png")
MaskPath(dir, id) == dir \o "/mask" \o id \o ".png"

\* Python truthiness of current_id: None and "" are both false
Truthy(cid) == cid # None /\ cid[1] # ""

\* the locals of get_required_assets before its loop
WalkInit(tid) ==
    [ current_id              |-> <<tid>>,
      processed_ids           |-> {},
      photo_needs             |-> 0,
      required_photo_indices  |-> <<>>,
      required_mask_paths     |-> <<>>,
      required_position_info  |-> <<>>,
      status                  |-> "walking",
      err                     |-> "none",
      ret                     |-> None ]

\* return None, None, None after printing an error
Fail(w, reason) ==
    [w EXCEPT !.status = "failed", !.err = reason, !.ret = <<None, None, None>>]

\* while current_id and current_id not in processed_ids
LoopGuardNoVisited(w) ==
    Truthy(w.current_id)

LoopGuard(w) ==
    Truthy(w.current_id) /\ w.current_id[1] \notin w.processed_ids

\* the mask chosen for slot cid: the slot's own file, else the root's file,
\* else none
MaskChoiceNoFallback(fs, dir, tid, cid) ==
    IF MaskPath(dir, cid) \in fs THEN <<MaskPath(dir, cid)>> ELSE None

MaskChoice(fs, dir, tid, cid) ==
    IF MaskPath(dir, cid) \in fs THEN <<MaskPath(dir, cid)>>
    ELSE IF MaskPath(dir, tid) \in fs THEN <<MaskPath(dir, tid)>>
    ELSE None

\* the tail of the loop body: follow the third element, if any
FollowNextUnchecked(w, positions, info) ==
    IF Len(info) > 2
    THEN [w EXCEPT !.current_id = <<info[3]>>]
    ELSE [w EXCEPT !.current_id = None]

FollowNext(w, positions, info) ==
    IF Len(info) > 2
    THEN IF info[3] \notin DOMAIN positions
         THEN Fail(w, "dangling")
         ELSE [w EXCEPT !.current_id = <<info[3]>>]
    ELSE [w EXCEPT !.current_id = None]

\* one iteration of the while loop
LoopBody(w, positions, fs, dir, tid) ==
    LET cid == w.current_id[1]
        w1  == [w EXCEPT !.processed_ids = @ \cup {cid}]
    IN  IF cid \notin DOMAIN positions
        THEN Fail(w1, "unknown_slot")
        ELSE
          LET info == positions[cid]
              w2 == [w1 EXCEPT
                       !.required_position_info = Append(@, info),
                       !.required_photo_indices = Append(@, w1.photo_needs),
                       !.photo_needs = @ + 1]
              m == MaskChoice(fs, dir, tid, cid)
          IN  IF m = None
              THEN Fail(w2, "missing_mask")
              ELSE FollowNext(
                     [w2 EXCEPT !.required_mask_paths = Append(@, m[1])],
                     positions, info)

\* after the loop: the photo count check and the selection of the photos
SelectPhotosShifted(w, photos) ==
    [i \in 1..Len(w.required_photo_indices) |->
        photos[Len(w.required_photo_indices) + 1 - i]]

SelectPhotos(w, photos) ==
    [i \in 1..Len(w.required_photo_indices) |->
        photos[w.required_photo_indices[i] + 1]]

EnoughPhotos(w, photos) ==
    ~(w.photo_needs > Len(photos))

AfterLoop(w, photos) ==
    IF ~EnoughPhotos(w, photos)
    THEN Fail(w, "insufficient")
    ELSE [w EXCEPT !.status = "success",
                   !.ret = <<SelectPhotos(w, photos),
                             w.required_mask_paths,
                             w.required_position_info>>]

ComposeIdle ==
    /\ is_swap = FALSE
    /\ current_base = None
    /\ layer = 0
    /\ last_call = None
    /\ processed_base = None
    /\ aborted = FALSE

PipelineIdle ==
    /\ pc = "idle"
    /\ cfg_file = None
    /\ template_file = ""
    /\ out_dir_missing = FALSE
    /\ req = None
    /\ done = {}
    /\ failed = {}
    /\ dir_created = FALSE
    /\ out_file = "none"
    /\ exit_code = None

-----------------------------------------------------------------------------
(* Python float arithmetic (IEEE 754 binary64, round to nearest even) on   *)
(* the only shapes the program uses: a / b for positive integers a and b,  *)
(* then int(w * q) or int(w / q) for a positive integer w.                 *)
(*                                                                         *)
(* The quotient q = fl(a / b) is kept as the exact fraction a / b together *)
(* with its rounding error: with e = floor(log2(a / b)) and                *)
(* r = (a * 2^(52 - e)) mod b, the 53 bit significand is rounded down by   *)
(* r / b units in the last place when 2r < b and up by (b - r) / b when    *)
(* 2r > b (2r = b cannot happen for a below 2^53). err is that signed      *)
(* error times b, in units of 2^(e - 52).                                  *)
(*                                                                         *)
(* int(w * q) and int(w / q) equal the floor of the exact value unless the *)
(* exact value is an integer k and the rounding error of q pushes the      *)
(* rounded result below k, which happens when the error exceeds half the   *)
(* gap between k and the double just below it.                             *)

\* significand bits of a double after the leading one
MantissaBits == 52

RECURSIVE Pow2(_)
Pow2(n) == IF n = 0 THEN 1 ELSE 2 * Pow2(n - 1)

\* 2^n mod m
RECURSIVE Pow2Mod(_, _)
Pow2Mod(n, m) == IF n = 0 THEN 1 % m ELSE (2 * Pow2Mod(n - 1, m)) % m

\* the largest e with 2^e <= a / b, searched upwards from e
RECURSIVE Log2Up(_, _, _)
Log2Up(a, b, e) == IF b * Pow2(e + 1) <= a THEN Log2Up(a, b, e + 1) ELSE e

\* the largest e <= 0 with 2^e <= a / b, searched downwards from e
RECURSIVE Log2Down(_, _, _)
Log2Down(a, b, e) == IF a * Pow2(0 - e) < b THEN Log2Down(a, b, e - 1) ELSE e

FloorLog2(a, b) == IF a >= b THEN Log2Up(a, b, 0) ELSE Log2Down(a, b, 0)

\* a / b (true division of two positive ints)
FloatDiv(a, b) ==
    LET e == FloorLog2(a, b)
        r == ((a % b) * Pow2Mod(MantissaBits - e, b)) % b
    IN  [num |-> a, den |-> b, exp |-> e,
         err |-> IF 2 * r < b THEN 0 - r ELSE b - r]

\* two quotients are the same double: equal fractions round alike
FloatEq(q1, q2) == q1.num * q2.den = q2.num * q1.den

\* x * 2^s > y
GtScaled(x, s, y) == IF s >= 0 THEN x * Pow2(s) > y ELSE x > y * Pow2(0 - s)

IsPow2(k) == k = Pow2(FloorLog2(k, 1))

\* log2 of the gap below k, relative to q's last place, plus one
GapShift(k, q) ==
    LET j == FloorLog2(k, 1)
    IN  IF IsPow2(k) THEN q.exp + 2 - j ELSE q.exp + 1 - j

\* int(w * q)
IntOfProd(w, q) ==
    LET k == (w * q.num) \div q.den
    IN  IF (w * q.num) % q.den # 0 \/ q.err >= 0 \/ k = 0 THEN k
        ELSE IF GtScaled(w * (0 - q.err), GapShift(k, q), q.den) THEN k - 1
        ELSE k

\* int(w / q)
IntOfQuot(w, q) ==
    LET k == (w * q.den) \div q.num
    IN  IF (w * q.den) % q.num # 0 \/ q.err <= 0 \/ k = 0 THEN k
        ELSE IF GtScaled(q.err * k, GapShift(k, q), q.num) THEN k - 1
        ELSE k

Max(a, b) == IF a >= b THEN a ELSE b

-----------------------------------------------------------------------------
(* process_image: the size the photo is scaled to before it is cropped.    *)

\* largest mask or photo side
MaxDim == 9

\* if mask_size[0] < photo_size[0] or mask_size[1] < photo_size[1]
NeedsResizeWhenSmaller(mask, photo) ==
    photo[1] < mask[1] \/ photo[2] < mask[2]

NeedsResize(mask, photo) ==
    mask[1] < photo[1] \/ mask[2] < photo[2]

\* the scale of lines 35-46: by height, by width when that is too narrow
ChooseScale(mask, photo) ==
    LET one == FloatDiv(1, 1)
        byHeight == FloatDiv(photo[2], mask[2])
        byWidth == FloatDiv(photo[1], mask[1])
    IN  IF photo[2] > 0 /\ mask[2] > 0
        THEN IF IntOfQuot(photo[1], byHeight) < mask[1] /\ photo[1] > 0 /\ mask[1] > 0
             THEN [factor |-> "width", scale |-> byWidth]
             ELSE [factor |-> "height", scale |-> byHeight]
        ELSE IF photo[1] > 0 /\ mask[1] > 0
        THEN [factor |-> "width", scale |-> byWidth]
        ELSE [factor |-> "none", scale |-> one]

\* lines 24-63: what happens to the photo before it is pasted
\*   resized: photo_img.resize was called; size: the size it was called with
\*   cropped: scaled_photo.crop((0, 0) + mask_size) was called
ScalePlan(mask, photo) ==
    IF mask[1] = 0 \/ mask[2] = 0 \/ photo[1] = 0 \/ photo[2] = 0
    THEN [resized |-> FALSE, factor |-> "none", scale |-> FloatDiv(1, 1),
          size |-> photo, cropped |-> FALSE]
    ELSE IF NeedsResize(mask, photo)
    THEN LET c == ChooseScale(mask, photo)
             new_width == IntOfQuot(photo[1], c.scale)
             new_height == IntOfQuot(photo[2], c.scale)
         IN  IF new_width > 0 /\ new_height > 0
             THEN [resized |-> TRUE, factor |-> c.factor, scale |-> c.scale,
                   size |-> <<new_width, new_height>>, cropped |-> TRUE]
             ELSE [resized |-> FALSE, factor |-> c.factor, scale |-> c.scale,
                   size |-> photo, cropped |-> TRUE]
    ELSE [resized |-> FALSE, factor |-> "none", scale |-> FloatDiv(1, 1),
          size |-> photo, cropped |-> TRUE]

InitScale ==
    /\ mask_size \in (0..MaxDim) \X (0..MaxDim)
    /\ photo_size \in (0..MaxDim) \X (0..MaxDim)
    /\ plan = None
    /\ ResolveIdle
    /\ RescaleIdle
    /\ ComposeIdle
    /\ PipelineIdle

ScalePhoto ==
    /\ plan = None
    /\ plan' = <<ScalePlan(mask_size, photo_size)>>
    /\ UNCHANGED <<mask_size, photo_size, resolveVars, rescaleVars, composeVars, pipeVars>>

NextScale == ScalePhoto

SpecScale == InitScale /\ [][NextScale]_vars

NonZero(mask, photo) ==
    mask[1] > 0 /\ mask[2] > 0 /\ photo[1] > 0 /\ photo[2] > 0

\* C10 (as claimed): for a mask and a photo of non-zero dimensions the photo
\* is resized exactly when it is smaller than the mask in width or in height.
C10_Claim ==
    (plan # None /\ NonZero(mask_size, photo_size)) =>
        (plan[1].resized <=>
            (photo_size[1] < mask_size[1] \/ photo_size[2] < mask_size[2]))

\* C10 (amended): for a mask and a photo of non-zero dimensions the photo is
\* resized exactly when it is larger than the mask in width or in height;
\* both sides are divided by one factor, photo_height / mask_height, or
\* photo_width / mask_width when dividing by the former would leave the
\* photo narrower than the mask; a photo that is not larger than the mask in
\* any dimension goes to the crop step unscaled.
C10_Theorem ==
    (plan # None /\ NonZero(mask_size, photo_size)) =>
        LET p == plan[1]
            narrower == (photo_size[1] * mask_size[2]) \div photo_size[2] < mask_size[1]
        IN  /\ p.resized <=>
                  (photo_size[1] > mask_size[1] \/ photo_size[2] > mask_size[2])
            /\ p.resized =>
                  /\ FloatEq(p.scale,
                             IF narrower
                             THEN FloatDiv(photo_size[1], mask_size[1])
                             ELSE FloatDiv(photo_size[2], mask_size[2]))
                  /\ p.size = <<IntOfQuot(photo_size[1], p.scale),
                                IntOfQuot(photo_size[2], p.scale)>>
            /\ ~p.resized => p.size = photo_size
            /\ p.cropped

\* a photo taller than the mask was scaled by the width-based factor
C10_Witness ==
    /\ plan # None
    /\ NonZero(mask_size, photo_size)
    /\ plan[1].resized
    /\ plan[1].factor = "width"
    /\ photo_size[2] > mask_size[2]
    /\ plan[1].size # photo_size

-----------------------------------------------------------------------------
(* process_image on pixels.                                                *)
(*                                                                         *)
(* An image is [mode, size, px]: px maps <<x, y>>, 0 <= x < width,         *)
(* 0 <= y < height, to a pixel. The imaging library treats the R, G and B  *)
(* bands alike and independently, so one band v stands for the three: an   *)
(* RGBA pixel is <<v, a>>, an RGB pixel is <<v>>.                          *)

\* at most this many layers are composited in one run
MaxLayers == 2

Coords(size) == (0..(size[1] - 1)) \X (0..(size[2] - 1))

Transparent == <<0, 0>>

\* Image.new("RGBA", size, (0, 0, 0, 0))
NewImage(size, pixel) ==
    [mode |-> "RGBA", size |-> size, px |-> [c \in Coords(size) |-> pixel]]

\* img.convert("RGBA"): an RGB pixel becomes opaque
ConvertRGBA(img) ==
    [mode |-> "RGBA", size |-> img.size,
     px |-> [c \in Coords(img.size) |->
               IF Len(img.px[c]) = 1 THEN <<img.px[c][1], 255>> ELSE img.px[c]]]

\* img.crop((0, 0, w, h)): pixels beyond the image are transparent
Crop(img, size) ==
    [mode |-> img.mode, size |-> size,
     px |-> [c \in Coords(size) |->
               IF c \in Coords(img.size) THEN img.px[c] ELSE Transparent]]

\* the library's blend of one band: in1 * (255 - m) + in2 * m, divided by
\* 255 with rounding
Blend(m, in1, in2) ==
    LET tmp == in1 * (255 - m) + in2 * m + 128
    IN  ((tmp \div 256) + tmp) \div 256

BlendPixel(m, out, in) ==
    <<Blend(m, out[1], in[1]), Blend(m, out[2], in[2])>>

\* dst.paste(src, pos, mask = msk): every band of dst, alpha included, is
\* blended with src by the alpha band of msk; the box is clipped to dst
Paste(dst, src, pos, msk) ==
    [dst EXCEPT !.px =
        [c \in Coords(dst.size) |->
            LET s == <<c[1] - pos[1], c[2] - pos[2]>>
            IN  IF s \in Coords(src.size)
                THEN BlendPixel(msk.px[s][2], dst.px[c], src.px[s])
                ELSE dst.px[c]]]

\* lines 73-86 with the layers never swapped
CompositeStandardOnly(base_img, masked_photo, pos, swap) ==
    Paste(base_img, masked_photo, pos, masked_photo)

\* lines 73-86: the masked photo under or over the base image
Composite(base_img, masked_photo, pos, swap) ==
    IF swap
    THEN LET temp_comp == NewImage(base_img.size, Transparent)
             under == Paste(temp_comp, masked_photo, pos, masked_photo)
         IN  Paste(under, base_img, <<0, 0>>, base_img)
    ELSE Paste(base_img, masked_photo, pos, masked_photo)

\* lines 24-63: the photo as pasted; resampled is what photo_img.resize
\* returned when it was called
ScaledPhoto(mask, photo, resampled) ==
    LET p == ScalePlan(mask.size, photo.size)
        scaled == IF p.resized THEN resampled ELSE photo
    IN  IF p.cropped THEN Crop(scaled, mask.size) ELSE scaled

\* process_image: <<canvas>>, or None when an exception was raised
process_image(base_img, mask_img, photo_img, position_info, swap, resampled) ==
    LET mask == ConvertRGBA(mask_img)
        photo == ConvertRGBA(photo_img)
        base == ConvertRGBA(base_img)
        scaled_photo == ScaledPhoto(mask, photo, resampled)
    IN  IF scaled_photo.size # mask.size
        THEN None   \* paste: "images do not match"
        ELSE IF Len(position_info) < 2
        THEN None   \* position_info[1]: IndexError
        ELSE LET masked_photo ==
                     Paste(NewImage(mask.size, Transparent), scaled_photo,
                           <<0, 0>>, mask)
             IN  <<Composite(base, masked_photo,
                             <<position_info[1], position_info[2]>>, swap)>>

\* the image whose rows of pixels are given, top row first
ImageOfRows(mode, rows) ==
    [mode |-> mode, size |-> <<Len(rows[1]), Len(rows)>>,
     px |-> [c \in Coords(<<Len(rows[1]), Len(rows)>>) |-> rows[c[2] + 1][c[1] + 1]]]

\* the pixel alphabets: opaque, half transparent, transparent
BasePixels == {<<10, 255>>, <<10, 128>>, <<10, 0>>}

PhotoPixels == {<<200, 255>>, <<200, 128>>}

MaskPixels == {<<0, 255>>, <<0, 128>>, <<0, 0>>}

\* template images: 2 x 1, every RGBA content and one RGB image
BaseImages ==
    {ImageOfRows("RGBA", <<<<p, q>>>>) : p \in BasePixels, q \in BasePixels}
        \cup {ImageOfRows("RGB", <<<<<<10>>, <<10>>>>>>)}

\* masks: 1 x 1 and 2 x 1
MaskImages ==
    {ImageOfRows("RGBA", <<<<p>>>>) : p \in MaskPixels}
        \cup {ImageOfRows("RGBA", <<<<p, <<0, 255>>>>>>) : p \in MaskPixels}
        \cup {ImageOfRows("RGBA", <<<<<<0, 255>>, <<0, 0>>>>>>)}

\* photos: 1 x 1, 2 x 1 and 2 x 2
PhotoImages ==
    {ImageOfRows("RGBA", <<<<p>>>>) : p \in PhotoPixels}
        \cup {ImageOfRows("RGB", <<<<<<200>>>>>>)}
        \cup {ImageOfRows("RGBA", <<<<p, <<200, 255>>>>>>) : p \in PhotoPixels}
        \cup {ImageOfRows("RGBA", <<<<p, p>>, <<p, p>>>>) : p \in PhotoPixels}

\* position entries: [x, y], [x, y, next_id], and a malformed [x]
PositionInfos == {<<x, 0>> : x \in -1..1} \cup {<<1, 0, "b">>, <<0>>}

\* what photo_img.resize(size, LANCZOS) may return: a copy when the size is
\* the photo's own, else some image of that size (the filter is the
\* library's; every content over the alphabet is allowed)
ResizeResults(photo, size) ==
    IF size = photo.size THEN {photo}
    ELSE {[mode |-> "RGBA", size |-> size, px |-> f] :
             f \in [Coords(size) -> PhotoPixels]}

InitCompose ==
    /\ is_swap \in BOOLEAN
    /\ \E b \in BaseImages : current_base = <<b>>
    /\ layer = 0
    /\ last_call = None
    /\ processed_base = None
    /\ aborted = FALSE
    /\ ResolveIdle
    /\ ScaleIdle
    /\ RescaleIdle
    /\ PipelineIdle

\* lines 287-299: the call of process_image for layer i
CallProcessImage ==
    /\ ~aborted
    /\ last_call = None
    /\ layer < MaxLayers
    /\ \E m \in MaskImages, ph \in PhotoImages, pos \in PositionInfos :
         LET p == ScalePlan(m.size, ph.size)
         IN  \E r \in ResizeResults(ConvertRGBA(ph), p.size) :
               /\ last_call' = <<[base |-> current_base[1], mask |-> m, photo |-> ph,
                                 position_info |-> pos,
                                 scaled |-> ScaledPhoto(ConvertRGBA(m), ConvertRGBA(ph), r)]>>
               /\ processed_base' = process_image(current_base[1], m, ph, pos, is_swap, r)
    /\ UNCHANGED <<is_swap, current_base, layer, aborted>>
    /\ UNCHANGED <<resolveVars, scaleVars, rescaleVars, pipeVars>>

\* lines 301-305: abort on None, else the result is the next base
UpdateBase ==
    /\ ~aborted
    /\ last_call # None
    /\ IF processed_base = None
       THEN aborted' = TRUE /\ UNCHANGED <<current_base, last_call, processed_base>>
       ELSE /\ current_base' = processed_base
            /\ last_call' = None
            /\ processed_base' = None
            /\ UNCHANGED aborted
    /\ layer' = layer + 1
    /\ UNCHANGED <<is_swap, resolveVars, scaleVars, rescaleVars, pipeVars>>

NextCompose == CallProcessImage \/ UpdateBase

SpecCompose == InitCompose /\ [][NextCompose]_vars

-----------------------------------------------------------------------------
(* Properties of process_image, stated on the latest call.                 *)

Returned78 == last_call # None /\ processed_base # None

InBase == ConvertRGBA(last_call[1].base)

InMask == ConvertRGBA(last_call[1].mask)

\* the place of canvas pixel xy in the mask and in the pasted photo
InMaskAt(xy) ==
    <<xy[1] - last_call[1].position_info[1], xy[2] - last_call[1].position_info[2]>>

\* canvas pixel xy lies in the pasted rectangle
Covered(xy) == InMaskAt(xy) \in Coords(InMask.size)

MaskAlpha(xy) == InMask.px[InMaskAt(xy)][2]

\* C7 (as claimed): when mask and photo have identical dimensions, for either
\* value of the swap flag, the returned canvas has the size of the input
\* canvas and every pixel outside the pasted rectangle or under a zero mask
\* alpha keeps its RGBA value, partially transparent canvas pixels included.
C7_Claim ==
    (Returned78 /\ last_call[1].mask.size = last_call[1].photo.size) =>
        /\ processed_base[1].size = last_call[1].base.size
        /\ \A xy \in Coords(InBase.size) :
              (~Covered(xy) \/ MaskAlpha(xy) = 0) =>
                  processed_base[1].px[xy] = InBase.px[xy]

\* what does hold of C7: the claim in standard mode, and in swap mode for the
\* canvas pixels that are fully opaque
C7_Standard ==
    (Returned78 /\ last_call[1].mask.size = last_call[1].photo.size) =>
        /\ processed_base[1].size = last_call[1].base.size
        /\ \A xy \in Coords(InBase.size) :
              ((~Covered(xy) \/ MaskAlpha(xy) = 0)
                  /\ (~is_swap \/ InBase.px[xy][2] = 255)) =>
                  processed_base[1].px[xy] = InBase.px[xy]

\* canvas pixel xy is fully opaque in the base image and lies under a fully
\* opaque pixel of the mask
OpaqueUnderMask(xy) ==
    /\ InBase.px[xy][2] = 255
    /\ Covered(xy)
    /\ MaskAlpha(xy) = 255

PhotoPixelAt(xy) == last_call[1].scaled.px[InMaskAt(xy)]

\* C8 (as claimed): a canvas pixel that is fully opaque in the base image and
\* lies under an opaque part of the mask equals the base image's pixel in
\* swap mode and the photo's pixel in standard mode.
C8_Claim ==
    Returned78 =>
        \A xy \in Coords(InBase.size) :
            OpaqueUnderMask(xy) =>
                processed_base[1].px[xy] =
                    IF is_swap THEN InBase.px[xy] ELSE PhotoPixelAt(xy)

\* C8 (amended): such a pixel equals the base image's pixel in swap mode; in
\* standard mode it equals the pixel of the photo (as scaled and cropped)
\* where that pixel is fully opaque.
C8_Theorem ==
    Returned78 =>
        \A xy \in Coords(InBase.size) :
            OpaqueUnderMask(xy) =>
                IF is_swap
                THEN processed_base[1].px[xy] = InBase.px[xy]
                ELSE PhotoPixelAt(xy)[2] = 255 =>
                        processed_base[1].px[xy] = PhotoPixelAt(xy)

\* in swap mode an opaque base pixel hid an opaque photo pixel
C8_Witness ==
    /\ Returned78
    /\ is_swap
    /\ \E xy \in Coords(InBase.size) :
          /\ OpaqueUnderMask(xy)
          /\ PhotoPixelAt(xy)[2] = 255
          /\ processed_base[1].px[xy] = InBase.px[xy]
          /\ processed_base[1].px[xy] # PhotoPixelAt(xy)

-----------------------------------------------------------------------------
(* __main__: the final resize to 512 px, applied once after the loop.      *)

\* the longest side the final image is scaled to
TargetDim == 512

\* canvas sides range over 1..MaxSide and OtherSides
MaxSide == 50

OtherSides == {256, 300, 400, 512, 800, 1024}

\* lines 309-326
FinalResize(size) ==
    LET temp_dim == Max(size[1], size[2])
    IN  IF temp_dim # TargetDim /\ temp_dim > 0
        THEN LET scale_final == FloatDiv(TargetDim, temp_dim)
                 final_width == IntOfProd(size[1], scale_final)
                 final_height == IntOfProd(size[2], scale_final)
             IN  IF final_width > 0 /\ final_height > 0
                 THEN <<final_width, final_height>>
                 ELSE size
        ELSE size

InitRescale ==
    /\ canvas_size \in ((1..MaxSide) \cup OtherSides) \X ((1..MaxSide) \cup OtherSides)
    /\ final_size = None
    /\ ResolveIdle
    /\ ScaleIdle
    /\ ComposeIdle
    /\ PipelineIdle

ApplyFinalResize ==
    /\ final_size = None
    /\ final_size' = <<FinalResize(canvas_size)>>
    /\ UNCHANGED <<canvas_size, resolveVars, scaleVars, composeVars, pipeVars>>

NextRescale == ApplyFinalResize

SpecRescale == InitRescale /\ [][NextRescale]_vars

\* C5 (as claimed): for every composited canvas with positive width and
\* height the image handed to the save step has its longest side equal to
\* 512; a canvas whose longest side is 512 is left as it is, and a canvas of
\* (800, 400) becomes (512, 256).
C5_Claim ==
    final_size # None =>
        /\ Max(final_size[1][1], final_size[1][2]) = TargetDim
        /\ (Max(canvas_size[1], canvas_size[2]) = TargetDim =>
              final_size[1] = canvas_size)
        /\ (canvas_size = <<800, 400>> => final_size[1] = <<512, 256>>)

-----------------------------------------------------------------------------
(* The resolver as a state machine: one action per loop iteration, one for *)
(* the code after the loop.                                                *)

InitResolve ==
    /\ positions_data \in PositionTables
    \* nargs='+': at least one photo source
    /\ \E n \in 1..MaxPhotos : photo_paths = [i \in 1..n |-> PhotoName(i)]
    \* the caller exits before the call when template_id is not in positions
    /\ template_id \in RootIds \cap DOMAIN positions_data
    /\ template_dir \in TemplateDirs
    /\ files \in SUBSET {MaskPath(template_dir, id) : id \in SlotIds}
    /\ walk = WalkInit(template_id)
    /\ iters = 0
    /\ ScaleIdle
    /\ RescaleIdle
    /\ ComposeIdle
    /\ PipelineIdle

Walk ==
    /\ walk.status = "walking"
    /\ LoopGuard(walk)
    /\ walk' = LoopBody(walk, positions_data, files, template_dir, template_id)
    /\ iters' = iters + 1
    /\ UNCHANGED <<positions_data, photo_paths, template_id, template_dir, files>>
    /\ UNCHANGED <<scaleVars, rescaleVars, composeVars, pipeVars>>

Finish ==
    /\ walk.status = "walking"
    /\ ~LoopGuard(walk)
    /\ walk' = AfterLoop(walk, photo_paths)
    /\ UNCHANGED <<positions_data, photo_paths, template_id, template_dir, files, iters>>
    /\ UNCHANGED <<scaleVars, rescaleVars, composeVars, pipeVars>>

NextResolve == Walk \/ Finish

SpecResolve == InitResolve /\ [][NextResolve]_vars

-----------------------------------------------------------------------------
(* Properties of the resolver.                                             *)

\* the i-th slot of the chain that starts at the root and follows next_id
RECURSIVE ChainAt(_, _, _)
ChainAt(positions, tid, i) ==
    IF i = 1 THEN tid ELSE positions[ChainAt(positions, tid, i - 1)][3]

\* the table holds a chain of exactly n distinct slots from the root, each
\* entry naming the next and the last naming none, every slot's own mask
\* file present
RECURSIVE IsChain(_, _, _, _)
IsChain(positions, cid, seen, n) ==
    /\ cid \in DOMAIN positions
    /\ cid \notin seen
    /\ MaskPath(template_dir, cid) \in files
    /\ IF n = 1
       THEN Len(positions[cid]) = 2
       ELSE /\ Len(positions[cid]) = 3
            /\ IsChain(positions, positions[cid][3], seen \cup {cid}, n - 1)

Returned == walk.status \in {"success", "failed"}

\* C1: a successful resolve that visited N slots returns N photo sources, N
\* mask paths and N position entries; the i-th uses the i-th supplied photo
\* source with the mask and the position entry of the i-th slot of the chain;
\* a root slot without next_id yields one requirement with the first photo.
C1_Theorem ==
    walk.status = "success" =>
        /\ Len(walk.ret[1]) = iters
        /\ Len(walk.ret[2]) = iters
        /\ Len(walk.ret[3]) = iters
        /\ \A i \in 1..iters :
              LET id == ChainAt(positions_data, template_id, i)
              IN  /\ walk.ret[1][i] = photo_paths[i]
                  /\ walk.ret[3][i] = positions_data[id]
                  /\ walk.ret[2][i] \in files
                  /\ walk.ret[2][i] \in {MaskPath(template_dir, id),
                                         MaskPath(template_dir, template_id)}
        /\ (Len(positions_data[template_id]) = 2 =>
              /\ iters = 1
              /\ walk.ret[1] = <<photo_paths[1]>>)

C1_Witness ==
    /\ walk.status = "success"
    /\ iters = 3
    /\ Len(photo_paths) = 3

\* C2 (as claimed): for a chain of N slots with all slots and masks present,
\* resolve fails with the insufficient-photos error when fewer than N photo
\* sources are supplied and does not fail for that reason otherwise.
C2_Claim ==
    \A n \in 1..Cardinality(SlotIds) :
        (Returned /\ IsChain(positions_data, template_id, {}, n)) =>
            IF Len(photo_paths) < n
            THEN walk.status = "failed" /\ walk.err = "insufficient"
            ELSE walk.err # "insufficient"

\* a visited slot whose entry names a next_id that is not a key of the table
DanglingVisited(id) ==
    /\ id \in walk.processed_ids
    /\ id \in DOMAIN positions_data
    /\ Len(positions_data[id]) = 3
    /\ positions_data[id][3] \notin DOMAIN positions_data

HasMask(id) ==
    \/ MaskPath(template_dir, id) \in files
    \/ MaskPath(template_dir, template_id) \in files

\* C3 (as claimed): once a visited slot names a next_id that is not in the
\* table, resolve has failed with the dangling reference error.
C3_Claim ==
    \A id \in SlotIds :
        DanglingVisited(id) => walk.status = "failed" /\ walk.err = "dangling"

\* C3 (amended): once a visited slot names a next_id that is not in the
\* table, resolve has failed and returned no requirement: with the dangling
\* reference error when a mask was found for that slot, with the missing
\* mask error (checked first) when none was.
C3_Theorem ==
    \A id \in SlotIds :
        DanglingVisited(id) =>
            /\ walk.status = "failed"
            /\ walk.ret = <<None, None, None>>
            /\ walk.err = IF HasMask(id) THEN "dangling" ELSE "missing_mask"

C3_Witness ==
    \E id \in SlotIds :
        /\ DanglingVisited(id)
        /\ HasMask(id)
        /\ iters = 2
        /\ walk.err = "dangling"

\* C4: the walk visits each slot id at most once, performs at most as many
\* iterations as the table has entries, and stops when the id to visit next
\* was visited before, also when the next_id links form a cycle.
C4_Theorem ==
    /\ iters <= Cardinality(DOMAIN positions_data)
    /\ Cardinality(walk.processed_ids) = iters
    /\ (/\ walk.status = "walking"
        /\ walk.current_id # None
        /\ walk.current_id[1] \in walk.processed_ids) => ~ENABLED Walk

\* a cycle of two or more slots was walked once around and the walk stopped
C4_Witness ==
    /\ walk.status = "success"
    /\ iters >= 2
    /\ walk.current_id # None
    /\ walk.current_id[1] \in walk.processed_ids

\* C9: the mask recorded for a visited slot is the slot's own mask file when
\* it exists, else the root's mask file when that exists; when neither exists
\* resolve fails with the missing-mask error and returns no requirement.
C9_Theorem ==
    /\ \A i \in 1..Len(walk.required_mask_paths) :
          LET id == ChainAt(positions_data, template_id, i)
          IN  /\ walk.required_mask_paths[i] \in files
              /\ walk.required_mask_paths[i] =
                    IF MaskPath(template_dir, id) \in files
                    THEN MaskPath(template_dir, id)
                    ELSE MaskPath(template_dir, template_id)
    /\ \A id \in walk.processed_ids :
          ~HasMask(id) =>
              /\ walk.status = "failed"
              /\ walk.err = "missing_mask"
              /\ walk.ret = <<None, None, None>>
    /\ walk.err = "missing_mask" => \E id \in walk.processed_ids : ~HasMask(id)

\* a slot without a mask of its own took the root's mask
C9_Witness ==
    /\ walk.status = "success"
    /\ \E i \in 1..Len(walk.required_mask_paths) :
          /\ MaskPath(template_dir, ChainAt(positions_data, template_id, i)) \notin files
          /\ walk.required_mask_paths[i] = MaskPath(template_dir, template_id)

-----------------------------------------------------------------------------
(* __main__: the pipeline from the command line to the saved file. What    *)
(* the file system, the network and the imaging library answer is chosen   *)
(* by the environment; the resolver is the one modelled above.             *)

\* get_required_assets as the caller sees it: the loop run to its end, then
\* the code after it
RECURSIVE RunLoop(_, _, _, _, _)
RunLoop(w, positions, fs, dir, tid) ==
    IF w.status = "walking" /\ LoopGuard(w)
    THEN RunLoop(LoopBody(w, positions, fs, dir, tid), positions, fs, dir, tid)
    ELSE w

get_required_assets(tid, positions, photos, dir, fs) ==
    LET w == RunLoop(WalkInit(tid), positions, fs, dir, tid)
    IN  IF w.status = "failed" THEN w.ret ELSE AfterLoop(w, photos).ret

\* names the --template file may have
TemplateFiles == {"eatA.png", "eatb.png", "cat.png"}

\* re.match(r"eat([a-zA-Z0-9_]+)\.png", name, re.IGNORECASE), group(1).lower()
ExtractTemplateId(name) ==
    CASE name = "eatA.png" -> <<"a">>
      [] name = "eatb.png" -> <<"b">>
      [] OTHER -> None

\* what --config names: no file, a file that is not JSON, a JSON object
\* without "positions", JSON that is no object (config_data.get raises), or
\* a JSON object with a table of positions
ConfigKinds == {"missing", "invalid_json", "no_positions", "not_object", "ok"}

\* the position tables over the slots "a" and "b"
PipelineTables ==
    {t \in PositionTables : DOMAIN t \subseteq {"a", "b"} /\ DOMAIN t # {}}

\* lines 215-233: the positions the run works with, None for sys.exit(1)
LoadedPositions(cfg) ==
    CASE cfg.kind = "ok" -> <<cfg.positions>>
      [] cfg.kind = "not_object" -> None
      [] OTHER -> <<<<>>>>

\* the stages whose success the save step rests on
StagesBeforeSave ==
    {"config", "extract_id", "check_id", "resolve", "load_base",
     "load_photos", "load_masks", "compose", "resize"}

Exit(code) ==
    /\ pc' = "exit"
    /\ exit_code' = <<code>>

\* a stage failed: sys.exit(1)
Abort(stage) ==
    /\ Exit(1)
    /\ failed' = failed \cup {stage}
    /\ UNCHANGED done

\* a stage succeeded: on to the next
Advance(stage, next) ==
    /\ pc' = next
    /\ done' = done \cup {stage}
    /\ UNCHANGED <<failed, exit_code>>

InitPipeline ==
    /\ pc = "load_config"
    /\ \E k \in ConfigKinds :
         IF k = "ok"
         THEN \E t \in PipelineTables : cfg_file = [kind |-> k, positions |-> t]
         ELSE cfg_file = [kind |-> k, positions |-> <<>>]
    /\ template_file \in TemplateFiles
    /\ out_dir_missing \in BOOLEAN
    /\ \E n \in 1..MaxPhotos : photo_paths = [i \in 1..n |-> PhotoName(i)]
    /\ template_dir \in TemplateDirs
    /\ files \in SUBSET {MaskPath(template_dir, id) : id \in {"a", "b"}}
    /\ positions_data = <<>>
    /\ template_id = ""
    /\ walk = None
    /\ iters = 0
    /\ req = None
    /\ done = {}
    /\ failed = {}
    /\ dir_created = FALSE
    /\ out_file = "none"
    /\ exit_code = None
    /\ ScaleIdle
    /\ RescaleIdle
    /\ ComposeIdle

pipeInputs == <<cfg_file, template_file, out_dir_missing, photo_paths, template_dir, files>>

pipeOther == <<walk, iters, scaleVars, rescaleVars, is_swap, current_base, last_call, processed_base, aborted>>

\* lines 215-233
LoadConfig ==
    /\ pc = "load_config"
    /\ IF LoadedPositions(cfg_file) = None
       THEN Abort("config") /\ UNCHANGED positions_data
       ELSE /\ positions_data' = LoadedPositions(cfg_file)[1]
            /\ IF DOMAIN LoadedPositions(cfg_file)[1] = {}
               THEN pc' = "extract_id" /\ UNCHANGED <<done, failed, exit_code>>
               ELSE Advance("config", "extract_id")
    /\ UNCHANGED <<template_id, req, layer, dir_created, out_file, pipeInputs, pipeOther>>

\* lines 236-248
ExtractId ==
    /\ pc = "extract_id"
    /\ IF ExtractTemplateId(template_file) = None
       THEN Abort("extract_id") /\ UNCHANGED template_id
       ELSE /\ template_id' = ExtractTemplateId(template_file)[1]
            /\ Advance("extract_id", "check_id")
    /\ UNCHANGED <<positions_data, req, layer, dir_created, out_file, pipeInputs, pipeOther>>

\* lines 251-254
CheckId ==
    /\ pc = "check_id"
    /\ IF template_id \notin DOMAIN positions_data
       THEN Abort("check_id")
       ELSE Advance("check_id", "resolve")
    /\ UNCHANGED <<positions_data, template_id, req, layer, dir_created, out_file, pipeInputs, pipeOther>>

\* lines 257-262
Resolve ==
    /\ pc = "resolve"
    /\ req' = get_required_assets(template_id, positions_data, photo_paths,
                                  template_dir, files)
    /\ IF req'[1] = None
       THEN Abort("resolve")
       ELSE Advance("resolve", "load_base")
    /\ UNCHANGED <<positions_data, template_id, layer, dir_created, out_file, pipeInputs, pipeOther>>

\* a load_image stage: every image loaded, or one came back None
LoadStage(stage, next) ==
    /\ pc = stage
    /\ \E ok \in BOOLEAN :
         IF ok THEN Advance(stage, next) ELSE Abort(stage)
    /\ UNCHANGED <<positions_data, template_id, req, layer, dir_created, out_file, pipeInputs, pipeOther>>

\* lines 269-270
LoadBase == LoadStage("load_base", "load_photos")

\* lines 272-275
LoadPhotos == LoadStage("load_photos", "load_masks")

\* lines 277-280
LoadMasksUnchecked ==
    /\ pc = "load_masks"
    /\ \E ok \in BOOLEAN :
         IF ok THEN Advance("load_masks", "compose")
         ELSE pc' = "compose" /\ failed' = failed \cup {"load_masks"}
                /\ UNCHANGED <<done, exit_code>>
    /\ UNCHANGED <<positions_data, template_id, req, layer, dir_created, out_file, pipeInputs, pipeOther>>

LoadMasks == LoadStage("load_masks", "compose")

\* lines 286-305: one layer; process_image returns a canvas or None
ComposeLayer ==
    /\ pc = "compose"
    /\ layer < Len(req[1])
    /\ \E ok \in BOOLEAN :
         IF ok
         THEN /\ layer' = layer + 1
              /\ UNCHANGED <<pc, done, failed, exit_code>>
         ELSE Abort("compose") /\ UNCHANGED layer
    /\ UNCHANGED <<positions_data, template_id, req, dir_created, out_file, pipeInputs, pipeOther>>

\* the loop has run for every requirement
ComposeDone ==
    /\ pc = "compose"
    /\ layer = Len(req[1])
    /\ Advance("compose", "resize")
    /\ UNCHANGED <<positions_data, template_id, req, layer, dir_created, out_file, pipeInputs, pipeOther>>

\* lines 308-326
ResizeStage ==
    /\ pc = "resize"
    /\ Advance("resize", "make_dir")
    /\ UNCHANGED <<positions_data, template_id, req, layer, dir_created, out_file, pipeInputs, pipeOther>>

\* lines 335-338: os.makedirs when the output directory does not exist
MakeOutputDir ==
    /\ pc = "make_dir"
    /\ IF out_dir_missing
       THEN \E ok \in BOOLEAN :
              IF ok
              THEN dir_created' = TRUE /\ Advance("make_dir", "save")
              ELSE Abort("make_dir") /\ UNCHANGED dir_created
       ELSE Advance("make_dir", "save") /\ UNCHANGED dir_created
    /\ UNCHANGED <<positions_data, template_id, req, layer, out_file, pipeInputs, pipeOther>>

\* lines 340-359: the file is written and the run ends with exit code 0, or
\* save raises and the run ends with 1; what a failed save leaves of the
\* file is the library's: nothing, or a part
SaveFile ==
    /\ pc = "save"
    /\ \/ /\ out_file' = "written"
          /\ Exit(0)
          /\ done' = done \cup {"save"}
          /\ UNCHANGED failed
       \/ /\ out_file' \in {"none", "partial"}
          /\ Abort("save")
    /\ UNCHANGED <<positions_data, template_id, req, layer, dir_created, pipeInputs, pipeOther>>

NextPipeline ==
    \/ LoadConfig
    \/ ExtractId
    \/ CheckId
    \/ Resolve
    \/ LoadBase
    \/ LoadPhotos
    \/ LoadMasks
    \/ ComposeLayer
    \/ ComposeDone
    \/ ResizeStage
    \/ MakeOutputDir
    \/ SaveFile

SpecPipeline == InitPipeline /\ [][NextPipeline]_vars

\* the save step has been reached
SaveReached == pc \in {"make_dir", "save"} \/ dir_created \/ out_file # "none"

\* C6: the save step (creating the output directory, writing the file) is
\* reached only after the configuration load, the template id extraction,
\* the asset resolution, every image load and every layer's composition
\* have succeeded; when one of them fails, or the config file is missing, is
\* not JSON or has no positions, the run ends with a non-zero exit code and
\* no output file.
C6_Theorem ==
    /\ SaveReached =>
          /\ StagesBeforeSave \subseteq done
          /\ failed \cap StagesBeforeSave = {}
          /\ cfg_file.kind = "ok"
          /\ req # None /\ req[1] # None /\ layer = Len(req[1])
    /\ failed \cap StagesBeforeSave # {} =>
          /\ pc = "exit" /\ exit_code = <<1>>
          /\ ~dir_created /\ out_file = "none"
    /\ cfg_file.kind \in {"missing", "invalid_json", "no_positions"} =>
          /\ ~SaveReached
          /\ pc = "exit" => exit_code = <<1>>
    /\ exit_code = <<0>> => out_file = "written" /\ failed = {}
    /\ pc # "exit" => ENABLED NextPipeline

\* a run without a config file got past the id extraction and was stopped
C6_Witness ==
    /\ cfg_file.kind = "missing"
    /\ "extract_id" \in done
    /\ pc = "exit"
    /\ exit_code = <<1>>
    /\ out_file = "none"

====
